---- MODULE Spec2Model ----
(***************************************************************************)
(* A model of termfmt: per-stream capability flags and modifier stacks     *)
(* attached to std::basic_ostream objects through iword()/pword(), the     *)
(* push/pop protocol, and the scoped FormatGuard built on it.              *)
(* Modelled from src/src/termformat.cpp and src/include/termfmt/termfmt.h. *)
(***************************************************************************)
EXTENDS Integers, Sequences, FiniteSets, TLC

VARIABLES
    st,             \* stream -> "unborn" | "live" | "dead"
    iw,             \* stream -> the long stored in ios_base::iword(index)
    pw,             \* stream -> the ModStack* stored in ios_base::pword(index)
    cb,             \* stream -> number of registered erase callbacks
    heap,           \* address -> [st, mods, dels]: the ModStack objects made by ::new
    out,            \* stream -> the sequence of tokens written to the stream
    err,            \* "none" | "assert" (a failed assert) | "ub" (undefined behaviour)
    isatty,         \* FILE -> whether the file descriptor is a terminal
    apple,          \* whether the build is for an Apple platform
    envTermDefined, \* whether getenv("TERM") was non-null when first asked
    wsCol,          \* the column count of the terminal behind STDOUT_FILENO
    ret,            \* the last query or flag copy called and the value it returned
    handle,         \* the OStreamWrapper of the running insertion chain, if any
    nPush,          \* ghost: stream -> calls of pushModifier on it
    nPop,           \* ghost: stream -> calls of popModifier on it
    phase,          \* ghost: stream -> shape of its push/pop history
    rawOps,         \* ghost: stream -> a push or pop ran while it was not term-formattable
    origin,         \* ghost: stream -> "none" | "ctor" | "move": how it was constructed
    shown,          \* ghost: stream -> per text written, the codes of the guards then armed
    guards,         \* guard -> [st, ostream, mod]: the FormatGuard objects
    order,          \* ghost: the armed guards, in the order of their pushes
    lifo,           \* ghost: every guard so far ended as the most recent armed one
    frames          \* the active format(mod, stream, fn) calls, outermost first

streamVars == <<st, iw, pw, cb, heap, out, err>>
envVars    == <<isatty, apple, envTermDefined, wsCol>>
callVars   == <<ret, handle>>
ghostVars  == <<nPush, nPop, phase, rawOps, origin, shown>>
guardVars  == <<guards, order, lifo, frames>>
vars       == <<streamVars, envVars, callVars, ghostVars, guardVars>>

-----------------------------------------------------------------------------
(* Bounds of the model *)

\* The number of texts written to one stream.
MaxWrites == 2
\* The deepest modifier stack a push may build.
MaxDepth == 2
\* The number of pushModifier calls one stream takes.
MaxPush == 2
\* The number of catalog modifiers combined into one.
MaxTerms == 3

-----------------------------------------------------------------------------
(* Streams, files, addresses *)

StdStreams == {"cout", "cerr", "clog"}
StrStreams == {"a", "b"}
Streams    == StdStreams \cup StrStreams
Files      == {"stdout", "stderr"}
NULL       == "nullptr"
\* The column count the terminal reports.
Columns    == 80
\* No query was called yet.
NoRet      == [fn |-> "none", args |-> <<>>, val |-> <<>>]
\* No OStreamWrapper exists.
NoHandle   == [mod |-> <<>>, ostream |-> NULL, n |-> 0]
Addrs      == {"h1", "h2"}

-----------------------------------------------------------------------------
(* Modifier catalog: [ansi, html, isReset]; ansi is the sequence of escape *)
(* codes of ansiBuffer, html is htmlBuffer.                                *)

Mod(ansiMod, htmlMod) == [ansi |-> <<ansiMod>>, html |-> <<htmlMod>>, isReset |-> FALSE]
Reset     == [ansi |-> <<"ESC[00m">>, html |-> <<>>, isReset |-> TRUE]
\* None{ "", "" }: the empty string holds no escape code.
None      == [ansi |-> <<>>, html |-> <<"">>, isReset |-> FALSE]
Bold      == Mod("ESC[1m", "")
Italic    == Mod("ESC[3m", "")
Underline == Mod("ESC[4m", "")
Red       == Mod("ESC[31m", "Crimson")
Cyan      == Mod("ESC[36m", "DarkTurquoise")

\* The modifiers the actions draw from.
Mods == {Red, Underline}

-----------------------------------------------------------------------------
(* Modifier algebra *)

\* Mutant: a combination that puts the right operand first.
operatorOr_Swapped(lhs, rhs) ==
    [ansi |-> rhs.ansi \o lhs.ansi, html |-> rhs.html \o lhs.html, isReset |-> FALSE]

\* operator|(Modifier const& lhs, Modifier const& rhs): a new Modifier made by
\* the constructor, which leaves isReset false.
operatorOr(lhs, rhs) ==
    [ansi |-> lhs.ansi \o rhs.ansi, html |-> lhs.html \o rhs.html, isReset |-> FALSE]

\* operator|(Modifier&& lhs, Modifier const& rhs): lhs is appended to and
\* returned, its isReset as it was.
operatorOrMove(lhs, rhs) ==
    [lhs EXCEPT !.ansi = @ \o rhs.ansi, !.html = @ \o rhs.html]

-----------------------------------------------------------------------------
(* Bit arithmetic on the iword *)

terminalBit == 0
htmlBit     == 1
widthMask   == 65280

RECURSIVE BitAnd(_, _)
BitAnd(a, b) ==
    IF a = 0 \/ b = 0 THEN 0
    ELSE (a % 2) * (b % 2) + 2 * BitAnd(a \div 2, b \div 2)

RECURSIVE BitOr(_, _)
BitOr(a, b) ==
    IF a = 0 THEN b
    ELSE IF b = 0 THEN a
    ELSE (IF a % 2 = 1 \/ b % 2 = 1 THEN 1 ELSE 0) + 2 * BitOr(a \div 2, b \div 2)

Shl(a, n) == a * (2 ^ n)

BoolToInt(v) == IF v THEN 1 ELSE 0

-----------------------------------------------------------------------------
(* Terminal detection *)

isattyWrapper(file) == isatty[file]

filedescIsTerminal(file) ==
    IF apple THEN isattyWrapper(file) /\ envTermDefined
    ELSE isattyWrapper(file)

\* Mutant: no comparison with the global stream.
isTerminalImpl_AnyStream(s, globalOStream, file) == filedescIsTerminal(file)

isTerminalImpl(s, globalOStream, file) ==
    IF s = globalOStream THEN filedescIsTerminal(file) ELSE FALSE

isTerminal(s) ==
    \/ isTerminalImpl(s, "cout", "stdout")
    \/ isTerminalImpl(s, "cerr", "stderr")
    \/ isTerminalImpl(s, "clog", "stderr")

-----------------------------------------------------------------------------
(* The stream state as one value, so that a handler is a composition *)

World == [st |-> st, iw |-> iw, pw |-> pw, cb |-> cb, heap |-> heap,
          out |-> out, err |-> err]

Commit(w) ==
    /\ st' = w.st
    /\ iw' = w.iw
    /\ pw' = w.pw
    /\ cb' = w.cb
    /\ heap' = w.heap
    /\ out' = w.out
    /\ err' = w.err

(* Capability flags *)

setTermFormattable(w, s, value) ==
    [w EXCEPT !.iw[s] = BitOr(@, Shl(BoolToInt(value), terminalBit))]

\* Mutant: only a terminal is term-formattable.
isTermFormattable_TerminalOnly(w, s) == isTerminal(s)

isTermFormattable(w, s) ==
    BitAnd(w.iw[s], Shl(1, terminalBit)) # 0 \/ isTerminal(s)

setHTMLFormattable(w, s, value) ==
    [w EXCEPT !.iw[s] = BitOr(@, Shl(BoolToInt(value), htmlBit))]

isHTMLFormattable(w, s) ==
    BitAnd(w.iw[s], Shl(1, htmlBit)) # 0

\* Mutant: a copy of the raw flag bits of source.
copyFormatFlags_RawBits(w, source, dest) ==
    [w EXCEPT !.iw[dest] = BitOr(@, BitAnd(w.iw[source], 3))]

copyFormatFlags(w, source, dest) ==
    LET w1 == IF isTermFormattable(w, source)
              THEN setTermFormattable(w, dest, TRUE) ELSE w
    IN IF isHTMLFormattable(w1, source)
       THEN setHTMLFormattable(w1, dest, TRUE) ELSE w1

-----------------------------------------------------------------------------
(* Width. An optional is <<>> (nullopt) or <<value>>. *)

\* word &= ~mask
BitClear(a, mask) == a - BitAnd(a, mask)

\* What an uninitialised winsize::ws_col may hold.
Indeterminate == {17, Columns}

\* The values getWidthImpl() may return: ioctl(STDOUT_FILENO, TIOCGWINSZ, &w)
\* fills w when standard output is a terminal and fails otherwise, leaving w
\* as it was declared; its result is not looked at.
getWidthImpl ==
    IF isatty["stdout"] THEN {wsCol} ELSE Indeterminate

\* Mutant: a getWidth that asks the terminal first.
getWidth_TerminalFirst(w, s) ==
    LET width == BitAnd(w.iw[s], widthMask) \div 256
    IN IF isTerminal(s) THEN {<<c>> : c \in getWidthImpl}
       ELSE IF width > 0 THEN {<<width>>}
       ELSE {<<>>}

\* The values getWidth(ostream) may return.
getWidth(w, s) ==
    LET width == BitAnd(w.iw[s], widthMask) \div 256
    IN IF width > 0 THEN {<<width>>}
       ELSE IF isTerminal(s) THEN {<<c>> : c \in getWidthImpl}
       ELSE {<<>>}

\* Mutant: a setWidth that stores the width over the whole word.
setWidth_Overwrite(w, s, width) ==
    IF width >= 256 THEN [w EXCEPT !.err = "assert"]
    ELSE [w EXCEPT !.iw[s] = Shl(width, 8)]

\* Mutant: a setWidth without the assertion.
setWidth_NoAssert(w, s, width) ==
    [w EXCEPT !.iw[s] = BitOr(BitClear(@, widthMask), Shl(width, 8))]

setWidth(w, s, width) ==
    IF width >= 256 THEN [w EXCEPT !.err = "assert"]
    ELSE [w EXCEPT !.iw[s] = BitOr(BitClear(@, widthMask), Shl(width, 8))]

-----------------------------------------------------------------------------
(* ModBase::put: the tokens that inserting mod into s writes *)

putString(str) == str

\* Mutant: a put that writes the escape codes whatever the flags say.
Put_Unconditional(mod, w, s) ==
    putString(mod.ansi)
    \o (IF isHTMLFormattable(w, s)
        THEN IF mod.isReset
             THEN <<"</font>">>
             ELSE <<"<font color=\"", Head(mod.html), "\">">>
        ELSE <<>>)

\* Mutant: a put that writes the HTML fragment before the escape codes.
Put_HtmlFirst(mod, w, s) ==
    (IF isHTMLFormattable(w, s)
     THEN IF mod.isReset
          THEN <<"</font>">>
          ELSE <<"<font color=\"", Head(mod.html), "\">">>
     ELSE <<>>)
    \o (IF isTermFormattable(w, s) THEN putString(mod.ansi) ELSE <<>>)

Put(mod, w, s) ==
    (IF isTermFormattable(w, s) THEN putString(mod.ansi) ELSE <<>>)
    \o (IF isHTMLFormattable(w, s)
        THEN IF mod.isReset
             THEN <<"</font>">>
             ELSE <<"<font color=\"", Head(mod.html), "\">">>
        ELSE <<>>)

(* ModStack *)

\* Mutant: a push at the bottom of the stack.
ModStackPush_Front(mods, mod) == <<mod>> \o mods

ModStackPush(mods, mod) == Append(mods, mod)

\* Mutant: a pop that removes the oldest entry.
ModStackPop_Front(mods) == Tail(mods)

\* Mutant: a pop that leaves the last entry in place.
ModStackPop_Keep(mods) == mods

ModStackPop(mods) == SubSeq(mods, 1, Len(mods) - 1)

\* Mutant: an apply that puts the top entry only.
ModStackApply_TopOnly(mods, w, s) ==
    IF mods = <<>> THEN <<>> ELSE Put(mods[Len(mods)], w, s)

RECURSIVE ModStackApply(_, _, _)
ModStackApply(mods, w, s) ==
    IF mods = <<>> THEN <<>>
    ELSE Put(Head(mods), w, s) \o ModStackApply(Tail(mods), w, s)

\* Mutant: a reset that writes the reset sequence once, whatever the stack holds.
ModStackReset_Once(mods, w, s) == Put(Reset, w, s)

\* Mutant: a push or pop that replays the stack without resetting first.
ModStackReset_None(mods, w, s) == <<>>

RECURSIVE ModStackReset(_, _, _)
ModStackReset(mods, w, s) ==
    IF mods = <<>> THEN <<>>
    ELSE Put(Reset, w, s) \o ModStackReset(Tail(mods), w, s)

-----------------------------------------------------------------------------
(* The heap of ModStack objects *)

NoStack == [st |-> "unalloc", mods |-> <<>>, dels |-> 0]

CanAlloc(w) == \E a \in Addrs : w.heap[a].st = "unalloc"

\* Mutant: one stack object that every stream is given.
NewModStack_Shared(w) == "h1"

NewModStack(w) == CHOOSE a \in Addrs : w.heap[a].st = "unalloc"

\* ::delete stackPtr. Deleting a null pointer does nothing; deleting an object
\* a second time is undefined behaviour.
Delete(w, ptr) ==
    IF ptr = NULL THEN w
    ELSE IF w.heap[ptr].st = "live"
         THEN [w EXCEPT !.heap[ptr].st = "deleted", !.heap[ptr].dels = @ + 1]
         ELSE [w EXCEPT !.heap[ptr].dels = @ + 1, !.err = "ub"]

\* The callback pushModifier registers on the stream.
Callback(w, event, s) ==
    IF event # "erase_event" THEN w
    ELSE [Delete(w, w.pw[s]) EXCEPT !.pw[s] = NULL]

RECURSIVE CallCallbacks(_, _, _, _)
CallCallbacks(w, event, s, n) ==
    IF n = 0 THEN w
    ELSE CallCallbacks(Callback(w, event, s), event, s, n - 1)

-----------------------------------------------------------------------------
(* pushModifier / popModifier *)

\* Mutant: a push that keeps its entry only on a formattable stream.
pushModifier_IfFormattable(w, mod, s) ==
    IF w.err # "none" THEN w
    ELSE IF ~(isTermFormattable(w, s) \/ isHTMLFormattable(w, s)) THEN w
    ELSE
      LET fresh    == w.pw[s] = NULL
          stackPtr == IF fresh THEN NewModStack(w) ELSE w.pw[s]
          w1 == IF fresh
                THEN [w EXCEPT !.heap[stackPtr] = [NoStack EXCEPT !.st = "live"],
                               !.pw[s] = stackPtr,
                               !.cb[s] = @ + 1]
                ELSE w
      IN IF w1.heap[stackPtr].st # "live"
         THEN [w1 EXCEPT !.err = "ub"]
         ELSE
           LET w2 == [w1 EXCEPT !.out[s] =
                        @ \o ModStackReset(w1.heap[stackPtr].mods, w1, s)]
               w3 == [w2 EXCEPT !.heap[stackPtr].mods = ModStackPush(@, mod)]
           IN [w3 EXCEPT !.out[s] =
                 @ \o ModStackApply(w3.heap[stackPtr].mods, w3, s)]

pushModifier(w, mod, s) ==
    IF w.err # "none" THEN w
    ELSE
      LET fresh    == w.pw[s] = NULL
          stackPtr == IF fresh THEN NewModStack(w) ELSE w.pw[s]
          w1 == IF fresh
                THEN [w EXCEPT !.heap[stackPtr] = [NoStack EXCEPT !.st = "live"],
                               !.pw[s] = stackPtr,
                               !.cb[s] = @ + 1]
                ELSE w
      IN IF w1.heap[stackPtr].st # "live"
         THEN [w1 EXCEPT !.err = "ub"]
         ELSE
           LET w2 == [w1 EXCEPT !.out[s] =
                        @ \o ModStackReset(w1.heap[stackPtr].mods, w1, s)]
               w3 == [w2 EXCEPT !.heap[stackPtr].mods = ModStackPush(@, mod)]
           IN [w3 EXCEPT !.out[s] =
                 @ \o ModStackApply(w3.heap[stackPtr].mods, w3, s)]

\* Mutant: a pop that removes the entry and replays without the reset.
popModifier_NoReset(w, s) ==
    IF w.err # "none" THEN w
    ELSE IF w.pw[s] = NULL THEN [w EXCEPT !.err = "assert"]
    ELSE IF w.heap[w.pw[s]].st # "live" \/ w.heap[w.pw[s]].mods = <<>>
    THEN [w EXCEPT !.err = "ub"]
    ELSE LET w2 == [w EXCEPT !.heap[w.pw[s]].mods = ModStackPop(@)]
         IN [w2 EXCEPT !.out[s] = @ \o ModStackApply(w2.heap[w.pw[s]].mods, w2, s)]

\* Mutant: a pop without the assertion, which reads through the null pointer.
popModifier_NoAssert(w, s) ==
    IF w.err # "none" THEN w
    ELSE IF w.pw[s] = NULL THEN [w EXCEPT !.err = "ub"]
    ELSE IF w.heap[w.pw[s]].st # "live" \/ w.heap[w.pw[s]].mods = <<>>
    THEN [w EXCEPT !.err = "ub"]
    ELSE LET w1 == [w EXCEPT !.out[s] = @ \o ModStackReset(w.heap[w.pw[s]].mods, w, s)]
             w2 == [w1 EXCEPT !.heap[w.pw[s]].mods = ModStackPop(@)]
         IN [w2 EXCEPT !.out[s] = @ \o ModStackApply(w2.heap[w.pw[s]].mods, w2, s)]

popModifier(w, s) ==
    IF w.err # "none" THEN w
    ELSE
      LET stackPtr == w.pw[s]
      IN IF stackPtr = NULL
         THEN [w EXCEPT !.err = "assert"]
         ELSE IF w.heap[stackPtr].st # "live"
         THEN [w EXCEPT !.err = "ub"]
         ELSE
           LET w1 == [w EXCEPT !.out[s] =
                        @ \o ModStackReset(w.heap[stackPtr].mods, w, s)]
           IN IF w1.heap[stackPtr].mods = <<>>
              THEN [w1 EXCEPT !.err = "ub"]
              ELSE
                LET w2 == [w1 EXCEPT !.heap[stackPtr].mods = ModStackPop(@)]
                IN [w2 EXCEPT !.out[s] =
                      @ \o ModStackApply(w2.heap[stackPtr].mods, w2, s)]

\* Mutant: the overloads without a stream work on standard error.
pushModifierDefault_Cerr(w, mod) == pushModifier(w, mod, "cerr")

\* void pushModifier(Modifier mod)
pushModifierDefault(w, mod) == pushModifier(w, mod, "cout")

\* void popModifier()
popModifierDefault(w) == popModifier(w, "cout")

-----------------------------------------------------------------------------
(* Stream lifetime: construction, move construction, copyfmt, destruction *)

\* Mutant: a new stream whose iword reads as whatever the storage held.
EmptyStream_Garbage(w, s) ==
    [w EXCEPT !.iw[s] = 3, !.pw[s] = NULL, !.cb[s] = 0, !.out[s] = <<>>]

\* A default-constructed stream: iword and pword read as zero, no callbacks.
EmptyStream(w, s) ==
    [w EXCEPT !.iw[s] = 0, !.pw[s] = NULL, !.cb[s] = 0, !.out[s] = <<>>]

\* Mutant: a move that copies, leaving the source as it was.
MoveStream_Copy(w, src, dst) ==
    [w EXCEPT !.st[dst] = "live",
              !.iw[dst] = w.iw[src],
              !.pw[dst] = w.pw[src],
              !.cb[dst] = w.cb[src],
              !.out[dst] = w.out[src]]

\* std::stringstream dst = std::move(src): basic_ios::move hands the iword and
\* pword arrays and the callbacks to dst, the buffer moves with them, and src is
\* left as a default-constructed stream.
MoveStream(w, src, dst) ==
    LET w1 == [w EXCEPT !.st[dst] = "live",
                        !.iw[dst] = w.iw[src],
                        !.pw[dst] = w.pw[src],
                        !.cb[dst] = w.cb[src],
                        !.out[dst] = w.out[src]]
    IN EmptyStream(w1, src)

\* dst.copyfmt(src): the callbacks of dst see erase_event, then the iword and
\* pword values and the callbacks of src are copied, then the copied callbacks
\* see copyfmt_event.
CopyFmtStream(w, dst, src) ==
    LET w1 == CallCallbacks(w, "erase_event", dst, w.cb[dst])
        w2 == [w1 EXCEPT !.iw[dst] = w1.iw[src],
                         !.pw[dst] = w1.pw[src],
                         !.cb[dst] = w1.cb[src]]
    IN CallCallbacks(w2, "copyfmt_event", dst, w2.cb[dst])

\* ~ios_base: every registered callback sees erase_event.
DestroyStream(w, s) ==
    LET w1 == CallCallbacks(w, "erase_event", s, w.cb[s])
    IN [EmptyStream(w1, s) EXCEPT !.st[s] = "dead"]

Depth(w, s) == IF w.pw[s] = NULL THEN 0 ELSE Len(w.heap[w.pw[s]].mods)

Live(s) == st[s] = "live" /\ err = "none"

\* The modifier stack attached to s: "none" when no stack is attached.
StackOf(s) == IF pw[s] = NULL THEN "none" ELSE heap[pw[s]].mods

ModsOf(s) == IF pw[s] = NULL THEN <<>> ELSE heap[pw[s]].mods

-----------------------------------------------------------------------------
(* Ghost bookkeeping of a pushModifier / popModifier call on s *)

GhostPush(s) ==
    /\ nPush' = [nPush EXCEPT ![s] = @ + 1]
    /\ nPop' = nPop
    /\ phase' = [phase EXCEPT ![s] = IF @ \in {"fresh", "pushing"} THEN "pushing" ELSE "mixed"]
    /\ rawOps' = [rawOps EXCEPT ![s] = @ \/ ~isTermFormattable(World, s)]

GhostPop(s) ==
    /\ nPop' = [nPop EXCEPT ![s] = @ + 1]
    /\ nPush' = nPush
    /\ phase' = [phase EXCEPT ![s] = IF @ \in {"pushing", "popping"} THEN "popping" ELSE "mixed"]
    /\ rawOps' = [rawOps EXCEPT ![s] = @ \/ ~isTermFormattable(World, s)]

GhostNone == UNCHANGED <<nPush, nPop, phase, rawOps>>

\* The escape codes of the modifiers of the guards armed on s, oldest first.
RECURSIVE ArmedCodes(_, _, _)
ArmedCodes(gs, ord, s) ==
    IF ord = <<>> THEN <<>>
    ELSE (IF gs[Head(ord)].ostream = s THEN gs[Head(ord)].mod.ansi ELSE <<>>)
         \o ArmedCodes(gs, Tail(ord), s)

-----------------------------------------------------------------------------
(* Actions on string streams *)

Construct(s) ==
    /\ st[s] = "unborn" /\ err = "none"
    /\ Commit([EmptyStream(World, s) EXCEPT !.st[s] = "live"])
    /\ origin' = [origin EXCEPT ![s] = "ctor"]
    /\ UNCHANGED <<envVars, callVars, nPush, nPop, phase, rawOps, shown, guardVars>>

SetTermFormattable(s, value) ==
    /\ Live(s)
    /\ Commit(setTermFormattable(World, s, value))
    /\ phase' = [phase EXCEPT ![s] = IF @ = "fresh" THEN @ ELSE "mixed"]
    /\ UNCHANGED <<envVars, callVars, nPush, nPop, rawOps, origin, shown, guardVars>>

SetHTMLFormattable(s, value) ==
    /\ Live(s)
    /\ Commit(setHTMLFormattable(World, s, value))
    /\ phase' = [phase EXCEPT ![s] = IF @ = "fresh" THEN @ ELSE "mixed"]
    /\ UNCHANGED <<envVars, callVars, nPush, nPop, rawOps, origin, shown, guardVars>>

Push(s, mod) ==
    /\ Live(s)
    /\ Depth(World, s) < MaxDepth
    /\ nPush[s] < MaxPush
    /\ pw[s] # NULL \/ CanAlloc(World)
    /\ Commit(pushModifier(World, mod, s))
    /\ GhostPush(s)
    /\ UNCHANGED <<envVars, callVars, origin, shown, guardVars>>

Pop(s) ==
    /\ Live(s)
    /\ Commit(popModifier(World, s))
    /\ GhostPop(s)
    /\ UNCHANGED <<envVars, callVars, origin, shown, guardVars>>

PushDefault(mod) ==
    /\ Live("cout")
    /\ Depth(World, "cout") < MaxDepth
    /\ nPush["cout"] < MaxPush
    /\ pw["cout"] # NULL \/ CanAlloc(World)
    /\ Commit(pushModifierDefault(World, mod))
    /\ GhostPush("cout")
    /\ UNCHANGED <<envVars, callVars, origin, shown, guardVars>>

PopDefault ==
    /\ Live("cout")
    /\ Commit(popModifierDefault(World))
    /\ GhostPop("cout")
    /\ UNCHANGED <<envVars, callVars, origin, shown, guardVars>>

Write(s) ==
    /\ Live(s)
    /\ Len(SelectSeq(out[s], LAMBDA x : x = "text")) < MaxWrites
    /\ IF out[s] = <<>> THEN TRUE ELSE out[s][Len(out[s])] # "text"
    /\ out' = [out EXCEPT ![s] = Append(@, "text")]
    /\ shown' = [shown EXCEPT ![s] = Append(@, ArmedCodes(guards, order, s))]
    /\ UNCHANGED <<st, iw, pw, cb, heap, err, envVars, callVars, nPush, nPop, phase, rawOps,
                   origin, guardVars>>

Move(src, dst) ==
    /\ Live(src) /\ st[dst] = "unborn"
    /\ Commit(MoveStream(World, src, dst))
    /\ nPush' = [nPush EXCEPT ![dst] = nPush[src], ![src] = 0]
    /\ nPop' = [nPop EXCEPT ![dst] = nPop[src], ![src] = 0]
    /\ phase' = [phase EXCEPT ![dst] = phase[src], ![src] = "fresh"]
    /\ rawOps' = [rawOps EXCEPT ![dst] = rawOps[src], ![src] = FALSE]
    /\ origin' = [origin EXCEPT ![dst] = "move"]
    /\ shown' = [shown EXCEPT ![dst] = shown[src], ![src] = <<>>]
    /\ UNCHANGED <<envVars, callVars, guardVars>>

CopyFmt(dst, src) ==
    /\ Live(src) /\ Live(dst) /\ src # dst
    /\ Commit(CopyFmtStream(World, dst, src))
    /\ phase' = [phase EXCEPT ![dst] = "mixed", ![src] = "mixed"]
    /\ UNCHANGED <<envVars, callVars, nPush, nPop, rawOps, origin, shown, guardVars>>

Destroy(s) ==
    /\ Live(s)
    /\ Commit(DestroyStream(World, s))
    /\ shown' = [shown EXCEPT ![s] = <<>>]
    /\ UNCHANGED <<envVars, callVars, nPush, nPop, phase, rawOps, origin, guardVars>>

-----------------------------------------------------------------------------
(* Width, flag copy, the queries, and the terminal behind a file *)

\* The widths a program passes to setWidth.
Widths == {0, 1, 255, 256}

SetWidth(s, width) ==
    /\ Live(s)
    /\ Commit(setWidth(World, s, width))
    /\ UNCHANGED <<envVars, callVars, ghostVars, guardVars>>

\* ret records the call and the value returned, <<>> for void.
Returned(fn, args, val) == [fn |-> fn, args |-> args, val |-> val]

\* The setters, with the call recorded.
SetTermFormattableCall(s, value) ==
    /\ Live(s)
    /\ Commit(setTermFormattable(World, s, value))
    /\ ret' = Returned("setTermFormattable", <<s, value>>, <<>>)
    /\ UNCHANGED <<envVars, handle, ghostVars, guardVars>>

SetHTMLFormattableCall(s, value) ==
    /\ Live(s)
    /\ Commit(setHTMLFormattable(World, s, value))
    /\ ret' = Returned("setHTMLFormattable", <<s, value>>, <<>>)
    /\ UNCHANGED <<envVars, handle, ghostVars, guardVars>>

CopyFormatFlags(source, dest) ==
    /\ Live(source) /\ Live(dest)
    /\ Commit(copyFormatFlags(World, source, dest))
    /\ ret' = Returned("copyFormatFlags", <<source, dest>>, <<>>)
    /\ UNCHANGED <<envVars, handle, ghostVars, guardVars>>

IsTerminalCall(s) ==
    /\ Live(s)
    /\ ret' = Returned("isTerminal", <<s>>, <<isTerminal(s)>>)
    /\ UNCHANGED <<streamVars, envVars, handle, ghostVars, guardVars>>

IsTermFormattableCall(s) ==
    /\ Live(s)
    /\ ret' = Returned("isTermFormattable", <<s>>, <<isTermFormattable(World, s)>>)
    /\ UNCHANGED <<streamVars, envVars, handle, ghostVars, guardVars>>

IsHTMLFormattableCall(s) ==
    /\ Live(s)
    /\ ret' = Returned("isHTMLFormattable", <<s>>, <<isHTMLFormattable(World, s)>>)
    /\ UNCHANGED <<streamVars, envVars, handle, ghostVars, guardVars>>

GetWidthCall(s) ==
    /\ Live(s)
    /\ \E v \in getWidth(World, s) : ret' = Returned("getWidth", <<s>>, v)
    /\ UNCHANGED <<streamVars, envVars, handle, ghostVars, guardVars>>

\* The file is redirected: to a terminal (tty) or away from one.
Redirect(file, tty) ==
    /\ err = "none"
    /\ isatty[file] # tty
    /\ isatty' = [isatty EXCEPT ![file] = tty]
    /\ UNCHANGED <<streamVars, apple, envTermDefined, wsCol, callVars, ghostVars,
                   guardVars>>

-----------------------------------------------------------------------------
(* Expressions lhs | rhs over the catalog *)

\* The modifiers a program combines.
CombineMods == {None, Reset, Bold, Red, Cyan}

OrFns == {"operator|", "operator|(&&)"}

\* The catalog modifiers a modifier is combined of, at most.
Terms(mod) == IF Len(mod.ansi) > Len(mod.html) THEN Len(mod.ansi) ELSE Len(mod.html)

\* The temporary the previous subexpression left, if any.
Temporary == IF ret.fn \in OrFns THEN {ret.val[1]} ELSE {}

\* lhs | rhs. An operand is a named modifier of the catalog or the temporary;
\* a temporary on the left selects the overload taking Modifier&&.
OrCall(lhs, rhs, moved) ==
    /\ err = "none"
    /\ lhs \in (IF moved THEN Temporary ELSE CombineMods)
    /\ rhs \in CombineMods \cup (IF moved THEN {} ELSE Temporary)
    /\ Terms(lhs) + Terms(rhs) <= MaxTerms
    /\ ret' = IF moved
              THEN Returned("operator|(&&)", <<lhs, rhs>>, <<operatorOrMove(lhs, rhs)>>)
              ELSE Returned("operator|", <<lhs, rhs>>, <<operatorOr(lhs, rhs)>>)
    /\ UNCHANGED <<streamVars, envVars, handle, ghostVars, guardVars>>

\* lhs |= rhs: lhs = std::move(lhs) | rhs.
operatorOrAssign(lhs, rhs) == operatorOrMove(lhs, rhs)

\* std::move(a) | rhs, for a variable a that holds a copy of a modifier of the
\* catalog.
OrMove(lhs, rhs) ==
    /\ err = "none"
    /\ lhs \in CombineMods /\ rhs \in CombineMods
    /\ ret' = Returned("operator|(&&)", <<lhs, rhs>>, <<operatorOrMove(lhs, rhs)>>)
    /\ UNCHANGED <<streamVars, envVars, handle, ghostVars, guardVars>>

\* a |= rhs, for such a variable; the value recorded is the one a is left
\* with.
OrAssign(lhs, rhs) ==
    /\ err = "none"
    /\ lhs \in CombineMods /\ rhs \in CombineMods
    /\ ret' = Returned("operator|=", <<lhs, rhs>>, <<operatorOrAssign(lhs, rhs)>>)
    /\ UNCHANGED <<streamVars, envVars, handle, ghostVars, guardVars>>

-----------------------------------------------------------------------------
(* ostream << mod: operator<<(ostream, ModBase const&) calls mod.put(ostream) *)

InsertMod(w, mod, s) == [w EXCEPT !.out[s] = @ \o Put(mod, w, s)]

\* The modifiers a program inserts directly.
PutMods == {Reset, Red, Bold}
\* The colour modifiers among them, and one more.
ColorMods == {Red, Cyan}

InsertModifier(mod, s) ==
    /\ Live(s)
    /\ Len(out[s]) < MaxWrites
    /\ Commit(InsertMod(World, mod, s))
    /\ ret' = Returned("operator<<", <<s, mod>>, <<>>)
    /\ UNCHANGED <<envVars, handle, ghostVars, guardVars>>

-----------------------------------------------------------------------------
(* FormatGuard: [st, ostream, mod]. ostream is the member OStream* ostream,  *)
(* NULL when the guard is disarmed; mod is a ghost copy of the modifier the  *)
(* guard pushed, kept while the guard is armed (Reset otherwise).            *)

Guards  == {"g1", "g2", "g3"}
NoGuard == [st |-> "unborn", ostream |-> NULL, mod |-> Reset]

Armed(gs, g) == gs[g].st = "live" /\ gs[g].ostream # NULL

\* Mutant: a constructor that pushes and leaves the member ostream null.
FormatGuardCtor_Unarmed(w, gs, g, mod, s) ==
    [w  |-> pushModifier(w, mod, s),
     gs |-> [gs EXCEPT ![g] = [st |-> "live", ostream |-> NULL, mod |-> mod]]]

\* FormatGuard(Modifier mod, OStream& ostream)
FormatGuardCtor(w, gs, g, mod, s) ==
    [w  |-> pushModifier(w, mod, s),
     gs |-> [gs EXCEPT ![g] = [st |-> "live", ostream |-> s, mod |-> mod]]]

\* void pop(): pops the stream if the guard is armed, and disarms it.
FormatGuardPop(w, gs, g) ==
    IF gs[g].ostream = NULL
    THEN [w |-> w, gs |-> gs]
    ELSE [w  |-> popModifier(w, gs[g].ostream),
          gs |-> [gs EXCEPT ![g].ostream = NULL, ![g].mod = Reset]]

\* ~FormatGuard() { popModifier(*this->ostream); }
FormatGuardDtor(w, gs, g) ==
    [w  |-> IF w.err # "none" THEN w
            ELSE IF gs[g].ostream = NULL THEN [w EXCEPT !.err = "ub"]
            ELSE popModifier(w, gs[g].ostream),
     gs |-> [gs EXCEPT ![g] = [st |-> "dead", ostream |-> NULL, mod |-> Reset]]]

\* ~FormatGuard() of the guard that can be disarmed: pop(), and the guard
\* is gone.
FormatGuardDtorPop(w, gs, g) ==
    LET r == FormatGuardPop(w, gs, g)
    IN [w |-> r.w, gs |-> [r.gs EXCEPT ![g].st = "dead"]]

\* FormatGuard(FormatGuard&& rhs)
FormatGuardMoveCtor(w, gs, g, rhs) ==
    [w  |-> w,
     gs |-> [gs EXCEPT ![g] = [st |-> "live", ostream |-> gs[rhs].ostream,
                               mod |-> gs[rhs].mod],
                       ![rhs].ostream = NULL, ![rhs].mod = Reset]]

\* FormatGuard& operator=(FormatGuard&& rhs): pop() on *this, then take rhs.
FormatGuardMoveAssign(w, gs, g, rhs) ==
    LET r == FormatGuardPop(w, gs, g)
    IN [w  |-> r.w,
        gs |-> [r.gs EXCEPT ![g].ostream = r.gs[rhs].ostream,
                            ![g].mod = r.gs[rhs].mod,
                            ![rhs].ostream = NULL, ![rhs].mod = Reset]]

-----------------------------------------------------------------------------
(* Ghost bookkeeping of the guards *)

FreshGuard == CHOOSE g \in Guards : guards[g].st = "unborn"

Last(seq) == seq[Len(seq)]

Without(seq, g) == SelectSeq(seq, LAMBDA x : x # g)

Renamed(seq, from, to) == [i \in 1..Len(seq) |-> IF seq[i] = from THEN to ELSE seq[i]]

FrameGuards == {frames[i].guard : i \in 1..Len(frames)}

\* The armed guard g ends: it is taken out of the order, and the guards ended
\* in reverse order of their pushes only if g was the most recent one.
GhostEnd(g) ==
    /\ order' = Without(order, g)
    /\ lifo' = (lifo /\ Last(order) = g)

-----------------------------------------------------------------------------
(* Actions on guards *)

GuardCtor(mod, s) ==
    /\ Live(s) /\ frames = <<>>
    /\ \E g \in Guards : guards[g].st = "unborn"
    /\ pw[s] # NULL \/ CanAlloc(World)
    /\ LET g == FreshGuard
           r == FormatGuardCtor(World, guards, g, mod, s)
       IN /\ Commit(r.w)
          /\ guards' = r.gs
          /\ order' = Append(order, g)
    /\ GhostPush(s)
    /\ UNCHANGED <<envVars, callVars, origin, shown, lifo, frames>>

GuardDtor(g) ==
    /\ err = "none" /\ frames = <<>>
    /\ guards[g].st = "live"
    /\ LET r == FormatGuardDtor(World, guards, g)
       IN /\ Commit(r.w)
          /\ guards' = r.gs
    /\ IF Armed(guards, g)
       THEN GhostEnd(g) /\ GhostPop(guards[g].ostream)
       ELSE GhostNone /\ UNCHANGED <<order, lifo>>
    /\ UNCHANGED <<envVars, callVars, origin, shown, frames>>

GuardDtorPop(g) ==
    /\ err = "none" /\ frames = <<>>
    /\ guards[g].st = "live"
    /\ LET r == FormatGuardDtorPop(World, guards, g)
       IN /\ Commit(r.w)
          /\ guards' = r.gs
    /\ IF Armed(guards, g)
       THEN GhostEnd(g) /\ GhostPop(guards[g].ostream)
       ELSE GhostNone /\ UNCHANGED <<order, lifo>>
    /\ UNCHANGED <<envVars, callVars, origin, shown, frames>>

GuardPopCall(g) ==
    /\ err = "none" /\ frames = <<>>
    /\ guards[g].st = "live"
    /\ LET r == FormatGuardPop(World, guards, g)
       IN /\ Commit(r.w)
          /\ guards' = r.gs
    /\ IF Armed(guards, g)
       THEN GhostEnd(g) /\ GhostPop(guards[g].ostream)
       ELSE GhostNone /\ UNCHANGED <<order, lifo>>
    /\ UNCHANGED <<envVars, callVars, origin, shown, frames>>

GuardMoveCtor(rhs) ==
    /\ err = "none" /\ frames = <<>>
    /\ guards[rhs].st = "live"
    /\ \E g \in Guards : guards[g].st = "unborn"
    /\ LET g == FreshGuard
           r == FormatGuardMoveCtor(World, guards, g, rhs)
       IN /\ Commit(r.w)
          /\ guards' = r.gs
          /\ order' = Renamed(order, rhs, g)
    /\ GhostNone
    /\ UNCHANGED <<envVars, callVars, origin, shown, lifo, frames>>

GuardMoveAssign(g, rhs) ==
    /\ err = "none" /\ frames = <<>>
    /\ guards[g].st = "live" /\ guards[rhs].st = "live" /\ g # rhs
    /\ LET r == FormatGuardMoveAssign(World, guards, g, rhs)
       IN /\ Commit(r.w)
          /\ guards' = r.gs
    /\ IF Armed(guards, g)
       THEN /\ order' = Renamed(Without(order, g), rhs, g)
            /\ lifo' = (lifo /\ Last(order) = g)
            /\ GhostPop(guards[g].ostream)
       ELSE /\ order' = Renamed(order, rhs, g)
            /\ lifo' = lifo
            /\ GhostNone
    /\ UNCHANGED <<envVars, callVars, origin, shown, frames>>

-----------------------------------------------------------------------------
(* format(mod, ostream, fn): a FormatGuard local to the call, then fn runs. *)
(* A frame is a call that has constructed its guard and is running fn.      *)

FormatCall(mod, s) ==
    /\ Live(s)
    /\ \E g \in Guards : guards[g].st = "unborn"
    /\ pw[s] # NULL \/ CanAlloc(World)
    /\ LET g == FreshGuard
           r == FormatGuardCtor(World, guards, g, mod, s)
       IN /\ Commit(r.w)
          /\ guards' = r.gs
          /\ order' = Append(order, g)
          /\ frames' = Append(frames, [guard |-> g, mod |-> mod, ostream |-> s,
                                       before |-> ModsOf(s), invoked |-> 1])
    /\ GhostPush(s)
    /\ UNCHANGED <<envVars, callVars, origin, shown, lifo>>

\* fn returns and the guard of the innermost call goes out of scope.
FormatReturn ==
    /\ err = "none" /\ frames # <<>>
    /\ LET f == Last(frames)
           r == FormatGuardDtor(World, guards, f.guard)
       IN /\ Commit(r.w)
          /\ guards' = r.gs
          /\ GhostEnd(f.guard)
          /\ GhostPop(f.ostream)
    /\ frames' = SubSeq(frames, 1, Len(frames) - 1)
    /\ UNCHANGED <<envVars, callVars, origin, shown>>

-----------------------------------------------------------------------------
(* The wrappers: format(mod, objects...) returns an ObjectWrapper that is    *)
(* inserted into a stream, format(mod, ostream) an OStreamWrapper that       *)
(* values are inserted into.                                                 *)

\* The objects a program formats: the string "x" and the int 42.
Objects == {[str |-> "x"], [int |-> 42]}

\* ostream << object, of the stream library: the characters of a string, the
\* decimal digits of an int.
Render(object) ==
    IF DOMAIN object = {"str"} THEN object.str ELSE ToString(object.int)

\* The argument lists objects... of format(mod, objects...).
ArgLists ==
    {<<>>} \cup {<<o>> : o \in Objects} \cup {<<o, p>> : o, p \in Objects}

\* Those without a repeated object.
ArgListsDistinct == {l \in ArgLists : Len(l) = 2 => l[1] # l[2]}

\* ((ostream << std::get<I>(wrapper.objects)), ...): left to right.
InsertAll(w, objects, s) ==
    IF w.err # "none" THEN w
    ELSE [w EXCEPT !.out[s] = @ \o [i \in 1..Len(objects) |-> Render(objects[i])]]

\* The guard local to an insertion.
LocalGuard == [g \in {"fmt"} |-> NoGuard]

\* Mutant: the objects are inserted after the guard is gone.
ObjectWrapperInsert_GuardFirst(w, mod, objects, s) ==
    LET c == FormatGuardCtor(w, LocalGuard, "fmt", mod, s)
        d == FormatGuardDtor(c.w, c.gs, "fmt")
    IN InsertAll(d.w, objects, s)

\* operator<<(ostream, ObjectWrapper const& wrapper)
ObjectWrapperInsert(w, mod, objects, s) ==
    LET c == FormatGuardCtor(w, LocalGuard, "fmt", mod, s)
        i == InsertAll(c.w, objects, s)
        d == FormatGuardDtor(i, c.gs, "fmt")
    IN d.w

\* Mutant: the value is inserted with no guard around it.
OStreamWrapperInsert_NoGuard(w, wrapper, object) ==
    InsertAll(w, <<object>>, wrapper.ostream)

\* operator<<(OStreamWrapper& wrapper, T const& object)
OStreamWrapperInsert(w, wrapper, object) ==
    LET c == FormatGuardCtor(w, LocalGuard, "fmt", wrapper.mod, wrapper.ostream)
        i == InsertAll(c.w, <<object>>, wrapper.ostream)
        d == FormatGuardDtor(i, c.gs, "fmt")
    IN d.w

\* operator<<(OStreamWrapper& wrapper, OStreamModifier modifier), for std::endl:
\* modifier(wrapper.ostream).
OStreamWrapperManip(w, wrapper) ==
    [w EXCEPT !.out[wrapper.ostream] = Append(@, "\n")]

\* The tokens of o that are not escape codes or tags.
IsCode(tok) ==
    tok \in {"ESC[00m", "ESC[1m", "ESC[3m", "ESC[4m", "ESC[31m", "ESC[36m",
             "</font>", "<font color=\"", "\">", "", "Crimson", "DarkTurquoise"}

Plain(o) == SelectSeq(o, LAMBDA tok : ~IsCode(tok))

\* One push and one pop ran on s in the step.
GhostPushPop(s) ==
    /\ nPush' = [nPush EXCEPT ![s] = @ + 1]
    /\ nPop' = [nPop EXCEPT ![s] = @ + 1]
    /\ phase' = [phase EXCEPT ![s] = "mixed"]
    /\ rawOps' = [rawOps EXCEPT ![s] = @ \/ ~isTermFormattable(World, s)]

\* ostream << format(mod, objects...)
InsertObjectWrapper(mod, objects, s) ==
    /\ Live(s)
    /\ Len(Plain(out[s])) < MaxWrites
    /\ nPush[s] < MaxPush
    /\ pw[s] # NULL \/ CanAlloc(World)
    /\ Commit(ObjectWrapperInsert(World, mod, objects, s))
    /\ GhostPushPop(s)
    /\ UNCHANGED <<envVars, callVars, origin, shown, guardVars>>

\* format(mod, ostream): the wrapper that starts an insertion chain.
FormatStream(mod, s) ==
    /\ Live(s) /\ handle = NoHandle
    /\ handle' = [mod |-> mod, ostream |-> s, n |-> 0]
    /\ UNCHANGED <<streamVars, envVars, ret, ghostVars, guardVars>>

\* wrapper << object
HandleInsert(object) ==
    /\ handle # NoHandle /\ Live(handle.ostream)
    /\ Len(Plain(out[handle.ostream])) < MaxWrites
    /\ nPush[handle.ostream] < MaxPush
    /\ pw[handle.ostream] # NULL \/ CanAlloc(World)
    /\ Commit(OStreamWrapperInsert(World, handle, object))
    /\ GhostPushPop(handle.ostream)
    /\ handle' = [handle EXCEPT !.n = @ + 1]
    /\ UNCHANGED <<envVars, ret, origin, shown, guardVars>>

\* wrapper << std::endl
HandleManip ==
    /\ handle # NoHandle /\ Live(handle.ostream)
    /\ Len(Plain(out[handle.ostream])) < MaxWrites
    /\ Commit(OStreamWrapperManip(World, handle))
    /\ UNCHANGED <<envVars, callVars, ghostVars, guardVars>>

\* The full expression ends and the temporary wrapper with it.
HandleEnd ==
    /\ handle # NoHandle
    /\ handle' = NoHandle
    /\ UNCHANGED <<streamVars, envVars, ret, ghostVars, guardVars>>

-----------------------------------------------------------------------------
(* Initial states *)

InitStreams(born) ==
    /\ st = [s \in Streams |-> IF s \in StdStreams \cup born THEN "live" ELSE "unborn"]
    /\ iw = [s \in Streams |-> 0]
    /\ pw = [s \in Streams |-> NULL]
    /\ cb = [s \in Streams |-> 0]
    /\ heap = [a \in Addrs |-> NoStack]
    /\ out = [s \in Streams |-> <<>>]
    /\ err = "none"
    /\ nPush = [s \in Streams |-> 0]
    /\ nPop = [s \in Streams |-> 0]
    /\ phase = [s \in Streams |-> "fresh"]
    /\ rawOps = [s \in Streams |-> FALSE]
    /\ origin = [s \in Streams |-> IF s \in StdStreams \cup born THEN "ctor" ELSE "none"]
    /\ shown = [s \in Streams |-> <<>>]

InitEnv ==
    /\ isatty = [f \in Files |-> FALSE]
    /\ apple = FALSE
    /\ envTermDefined = TRUE
    /\ wsCol = Columns

InitCalls == ret = NoRet /\ handle = NoHandle

InitGuards ==
    /\ guards = [g \in Guards |-> NoGuard]
    /\ order = <<>>
    /\ lifo = TRUE
    /\ frames = <<>>

\* The stream the program is working with: "a", and "b" once "a" was moved
\* into it. A moved-from "a" is still popped and destroyed.
Active(s) == s = "b" \/ st["b"] = "unborn"

\* One string stream under the flag setters, push, pop and writes, its move
\* into a second stream, and destruction.
Init == InitStreams({"a"}) /\ InitEnv /\ InitCalls /\ InitGuards

Next ==
    \/ \E s \in StrStreams : Active(s) /\ SetTermFormattable(s, TRUE)
    \/ \E s \in StrStreams : Active(s) /\ SetHTMLFormattable(s, TRUE)
    \/ \E s \in StrStreams, mod \in Mods : Active(s) /\ Push(s, mod)
    \/ \E s \in StrStreams : Pop(s)
    \/ \E s \in StrStreams : Active(s) /\ Write(s)
    \/ \E src, dst \in StrStreams : Move(src, dst)
    \/ \E s \in StrStreams : Destroy(s)

Spec == Init /\ [][Next]_vars

\* The capability flags and the width of standard output and of one string
\* stream, the queries on every stream, on any platform and with standard
\* output and standard error on a terminal or not.
FlagStreams == {"cout", "a"}

\* getenv("TERM") is read in an Apple build only.
InitEnvAny ==
    /\ isatty \in [Files -> BOOLEAN]
    /\ apple \in BOOLEAN
    /\ envTermDefined \in BOOLEAN
    /\ apple \/ envTermDefined
    /\ wsCol = Columns

InitFlags == InitStreams({"a"}) /\ InitEnvAny /\ InitCalls /\ InitGuards

NextFlags ==
    \/ \E s \in FlagStreams, value \in BOOLEAN : SetTermFormattableCall(s, value)
    \/ \E s \in FlagStreams, value \in BOOLEAN : SetHTMLFormattableCall(s, value)
    \/ \E source \in FlagStreams \cup {"cerr"}, dest \in FlagStreams :
           CopyFormatFlags(source, dest)
    \/ \E s \in FlagStreams \cup StdStreams : IsTerminalCall(s)
    \/ \E s \in FlagStreams : IsTermFormattableCall(s)
    \/ \E s \in FlagStreams : IsHTMLFormattableCall(s)
    \/ \E file \in Files, tty \in BOOLEAN : Redirect(file, tty)

SpecFlags == InitFlags /\ [][NextFlags]_vars

\* The width of the same streams, set and asked for between changes of the
\* flags and of the terminals.
InitWidth == InitStreams({"a"}) /\ InitEnvAny /\ InitCalls /\ InitGuards

NextWidth ==
    \/ \E s \in FlagStreams : SetTermFormattable(s, TRUE)
    \/ \E s \in FlagStreams : SetHTMLFormattable(s, TRUE)
    \/ \E s \in FlagStreams, width \in Widths : SetWidth(s, width)
    \/ \E s \in FlagStreams \cup {"cerr"} : GetWidthCall(s)
    \/ \E file \in Files, tty \in BOOLEAN : Redirect(file, tty)

SpecWidth == InitWidth /\ [][NextWidth]_vars

\* One string stream, possibly with modifiers pushed, into which wrapped
\* objects are inserted, directly and through an OStreamWrapper.
WrapMods == {Bold, Red}

InitWrap == InitStreams({"a"}) /\ InitEnv /\ InitCalls /\ InitGuards

\* The program sets the flags of the stream before it uses it.
Unused(s) == nPush[s] = 0 /\ out[s] = <<>> /\ handle = NoHandle

NextWrap ==
    \/ Unused("a") /\ SetTermFormattable("a", TRUE)
    \/ Unused("a") /\ SetHTMLFormattable("a", TRUE)
    \/ \E mod \in WrapMods : handle = NoHandle /\ nPop["a"] = 0 /\ Push("a", mod)
    \/ handle = NoHandle /\ Pop("a")
    \/ \E mod \in WrapMods, objects \in ArgListsDistinct :
           InsertObjectWrapper(mod, objects, "a")
    \/ \E mod \in WrapMods : FormatStream(mod, "a")
    \/ \E object \in Objects : HandleInsert(object)
    \/ HandleManip
    \/ HandleEnd

SpecWrap == InitWrap /\ [][NextWrap]_vars

\* Modifiers inserted directly into standard output, on a terminal or not, on
\* any platform, between changes of its flags.
InitPut == InitStreams({"a"}) /\ InitEnvAny /\ InitCalls /\ InitGuards

NextPut ==
    \/ SetTermFormattable("cout", TRUE)
    \/ SetHTMLFormattable("cout", TRUE)
    \/ \E mod \in PutMods \cup ColorMods : InsertModifier(mod, "cout")
    \/ Write("cout")

SpecPut == InitPut /\ [][NextPut]_vars

\* One string stream whose flags the program may set before it uses it, under
\* direct insertion of modifiers, push, pop, wrapped objects and writes.
InitPlain == InitStreams({"a"}) /\ InitEnv /\ InitCalls /\ InitGuards

NextPlain ==
    \/ Unused("a") /\ ret = NoRet /\ SetTermFormattable("a", TRUE)
    \/ Unused("a") /\ ret = NoRet /\ SetHTMLFormattable("a", TRUE)
    \/ \E mod \in {Reset, Red} : InsertModifier(mod, "a")
    \/ Push("a", Red)
    \/ Pop("a")
    \/ Write("a")
    \/ InsertObjectWrapper(Bold, <<[str |-> "x"], [int |-> 42]>>, "a")

SpecPlain == InitPlain /\ [][NextPlain]_vars

\* Standard output and standard error, each with its own stack, under the
\* pushes and pops that name a stream and those that do not.
DefaultStreams == {"cout", "cerr"}

InitDefault == InitStreams({}) /\ InitEnv /\ InitCalls /\ InitGuards

NextDefault ==
    \/ \E s \in DefaultStreams : Unused(s) /\ SetTermFormattable(s, TRUE)
    \/ \E mod \in WrapMods : PushDefault(mod)
    \/ PopDefault
    \/ Write("cout")
    \/ Push("cerr", Red)
    \/ Pop("cerr")

SpecDefault == InitDefault /\ [][NextDefault]_vars

\* A program that evaluates expressions lhs | rhs over the catalog, one
\* operator at a time.
InitCombine == InitStreams({}) /\ InitEnv /\ InitCalls /\ InitGuards

NextCombine ==
    \/ \E lhs, rhs \in CombineMods : OrCall(lhs, rhs, FALSE)
    \/ \E lhs \in CombineMods, rhs \in Temporary : OrCall(lhs, rhs, FALSE)
    \/ \E lhs \in Temporary, rhs \in CombineMods : OrCall(lhs, rhs, TRUE)

SpecCombine == InitCombine /\ [][NextCombine]_vars

\* A string stream that is constructed and asked for its flags and its width
\* before and after they are set, next to standard output, on a terminal or
\* not.
FreshStreams == {"a", "cout"}

InitFresh == InitStreams({}) /\ InitEnvAny /\ InitCalls /\ InitGuards

NextFresh ==
    \/ Construct("a")
    \/ \E s \in FreshStreams : SetTermFormattableCall(s, TRUE)
    \/ \E s \in FreshStreams : SetHTMLFormattableCall(s, TRUE)
    \/ \E width \in {0, 1} : SetWidth("a", width)
    \/ Push("a", Red)
    \/ \E s \in FreshStreams : IsTermFormattableCall(s)
    \/ \E s \in FreshStreams : IsHTMLFormattableCall(s)
    \/ \E s \in FreshStreams : GetWidthCall(s)

SpecFresh == InitFresh /\ [][NextFresh]_vars

\* A string stream that is pushed on and written to, moved into a second
\* one, and both popped and written to afterwards.
InitMove == InitStreams({"a"}) /\ InitEnv /\ InitCalls /\ InitGuards

NextMove ==
    \/ Unused("a") /\ SetTermFormattable("a", TRUE)
    \/ \E s \in StrStreams, mod \in Mods : Active(s) /\ Push(s, mod)
    \/ \E s \in StrStreams : Pop(s)
    \/ \E s \in StrStreams : Active(s) /\ Write(s)
    \/ Move("a", "b")

SpecMove == InitMove /\ [][NextMove]_vars

\* One string stream whose flags the program sets before it uses it, under
\* pushes of plain, coloured and combined modifiers, pops and writes.
HTMLMods == {Bold, Red, operatorOr(Red, Cyan)}

InitHTML == InitStreams({"a"}) /\ InitEnv /\ InitCalls /\ InitGuards

NextHTML ==
    \/ Unused("a") /\ SetTermFormattable("a", TRUE)
    \/ Unused("a") /\ SetHTMLFormattable("a", TRUE)
    \/ \E mod \in HTMLMods : Push("a", mod)
    \/ Pop("a")
    \/ Write("a")

SpecHTML == InitHTML /\ [][NextHTML]_vars

\* Two string streams whose flags and widths are set and copied at any time,
\* the first one pushed on and popped in between.
StoreWidths == {0, 255}

InitStore == InitStreams({"a", "b"}) /\ InitEnv /\ InitCalls /\ InitGuards

NextStore ==
    \/ \E s \in StrStreams, value \in BOOLEAN : SetTermFormattable(s, value)
    \/ \E s \in StrStreams, value \in BOOLEAN : SetHTMLFormattable(s, value)
    \/ \E s \in StrStreams, width \in StoreWidths : SetWidth(s, width)
    \/ \E source \in StrStreams : \E dest \in StrStreams \ {source} :
           CopyFormatFlags(source, dest)
    \/ Push("a", Red)
    \/ Pop("a")

SpecStore == InitStore /\ [][NextStore]_vars

\* Two threads, each with a string stream of its own that it sets the flag
\* of, pushes on, pops and writes to; the steps of the two interleave freely.
\* The first thread takes its steps in any order; the second sets the flag
\* or not, pushes once, writes under the modifier and pops.
InitThreads == InitStreams({"a", "b"}) /\ InitEnv /\ InitCalls /\ InitGuards

NextThreads ==
    \/ SetTermFormattable("a", TRUE)
    \/ Push("a", Red)
    \/ Pop("a")
    \/ Write("a")
    \/ Unused("b") /\ SetTermFormattable("b", TRUE)
    \/ nPush["b"] = 0 /\ Push("b", Red)
    \/ Depth(World, "b") > 0 /\ Write("b")
    \/ Depth(World, "b") > 0 /\ Pop("b")

SpecThreads == InitThreads /\ [][NextThreads]_vars

\* One string stream that is made term-formattable at any time, early, between
\* pushes and pops or never, and is moved into a second one or destroyed.
InitLate == InitStreams({"a"}) /\ InitEnv /\ InitCalls /\ InitGuards

NextLate ==
    \/ \E s \in StrStreams : Active(s) /\ SetTermFormattable(s, TRUE)
    \/ \E s \in StrStreams, mod \in Mods : Active(s) /\ Push(s, mod)
    \/ \E s \in StrStreams : Active(s) /\ Pop(s)
    \/ Move("a", "b")
    \/ \E s \in StrStreams : Destroy(s)

SpecLate == InitLate /\ [][NextLate]_vars

\* A program that combines modifiers through each form of the operator: by
\* const reference, on a temporary, on a moved-from variable, and by |=.
NextOverloads ==
    \/ \E lhs, rhs \in CombineMods : OrCall(lhs, rhs, FALSE)
    \/ \E lhs \in Temporary, rhs \in CombineMods : OrCall(lhs, rhs, TRUE)
    \/ \E lhs, rhs \in CombineMods : OrMove(lhs, rhs)
    \/ \E lhs, rhs \in CombineMods : OrAssign(lhs, rhs)

SpecOverloads == InitCombine /\ [][NextOverloads]_vars

\* Two string streams under push, pop, move, copyfmt and destruction.
InitLifetime == InitStreams({"a"}) /\ InitEnv /\ InitCalls /\ InitGuards

NextLifetime ==
    \/ \E s \in StrStreams : Construct(s)
    \/ \E s \in StrStreams, mod \in Mods : Push(s, mod)
    \/ \E s \in StrStreams : Pop(s)
    \/ \E src, dst \in StrStreams : Move(src, dst)
    \/ \E src, dst \in StrStreams : CopyFmt(dst, src)
    \/ \E s \in StrStreams : Destroy(s)

SpecLifetime == InitLifetime /\ [][NextLifetime]_vars

\* Guards on one string stream that are constructed, moved, move-assigned,
\* popped early and destroyed. The program decides whether the stream is
\* term-formattable before it constructs the first guard.
InitGuard == InitStreams({"a"}) /\ InitEnv /\ InitCalls /\ InitGuards

NextGuard ==
    \/ nPush["a"] = 0 /\ out["a"] = <<>> /\ SetTermFormattable("a", TRUE)
    \/ Write("a")
    \/ \E mod \in Mods : GuardCtor(mod, "a")
    \/ \E g \in Guards : GuardDtorPop(g)
    \/ \E g \in Guards : GuardPopCall(g)
    \/ \E rhs \in Guards : GuardMoveCtor(rhs)
    \/ \E g, rhs \in Guards : GuardMoveAssign(g, rhs)

SpecGuard == InitGuard /\ [][NextGuard]_vars

\* A program that brackets output with format(mod, a, fn), possibly inside the
\* scope of a guard.
InitFormat == InitStreams({"a"}) /\ InitEnv /\ InitCalls /\ InitGuards

NextFormat ==
    \/ SetTermFormattable("a", TRUE)
    \/ Write("a")
    \/ \E mod \in Mods : GuardCtor(mod, "a")
    \/ \E g \in Guards : GuardDtor(g)
    \/ \E mod \in Mods : FormatCall(mod, "a")
    \/ FormatReturn

SpecFormat == InitFormat /\ [][NextFormat]_vars

-----------------------------------------------------------------------------
(* What a reader of the stream sees *)

IsAnsi(tok) == tok \in {"ESC[00m", "ESC[1m", "ESC[3m", "ESC[4m", "ESC[31m", "ESC[36m"}

\* The escape codes in effect at the end of o: those written after the last reset.
RECURSIVE VisibleAnsi(_)
VisibleAnsi(o) ==
    IF o = <<>> THEN <<>>
    ELSE LET last  == o[Len(o)]
             front == SubSeq(o, 1, Len(o) - 1)
         IN IF last = "ESC[00m" THEN <<>>
            ELSE IF IsAnsi(last) THEN Append(VisibleAnsi(front), last)
            ELSE VisibleAnsi(front)

\* The <font> elements left open at the end of o.
RECURSIVE OpenFonts(_)
OpenFonts(o) ==
    IF o = <<>> THEN 0
    ELSE LET last  == o[Len(o)]
             front == SubSeq(o, 1, Len(o) - 1)
         IN OpenFonts(front)
            + (IF last = "<font color=\"" THEN 1 ELSE IF last = "</font>" THEN -1 ELSE 0)

RenderState(o) == [ansi |-> VisibleAnsi(o), html |-> OpenFonts(o)]

\* The escape codes of the entries of a stack, bottom to top.
RECURSIVE NetEffect(_)
NetEffect(mods) ==
    IF mods = <<>> THEN <<>> ELSE Head(mods).ansi \o NetEffect(Tail(mods))

-----------------------------------------------------------------------------
(* Claims on the modifier stack *)

\* C1: on a stream that was term-formattable at every push and pop, the escape
\* codes in effect after the last emitted reset are those of the entries of
\* its modifier stack, bottom to top.
C1_VisibleStateIsNetEffect ==
    \A s \in StrStreams :
        (st[s] = "live" /\ ~rawOps[s]) =>
            VisibleAnsi(out[s]) = NetEffect(ModsOf(s))

C1_Witness ==
    \E s \in StrStreams :
        /\ st[s] = "live" /\ ~rawOps[s] /\ err = "none"
        /\ nPush[s] = 2 /\ nPop[s] = 1 /\ Len(ModsOf(s)) = 1
        /\ VisibleAnsi(out[s]) # <<>>

\* C2: after n >= 1 pushes on a fresh stream followed by n pops, the stack is
\* empty and the rendered state is that of the untouched stream: no escape
\* code in effect, no <font> element open.
C2_PushPopRoundTrip ==
    \A s \in StrStreams :
        (st[s] = "live" /\ phase[s] = "popping" /\ nPop[s] = nPush[s]) =>
            /\ StackOf(s) = <<>>
            /\ RenderState(out[s]) = RenderState(<<>>)

C2_Witness ==
    \E s \in StrStreams :
        /\ st[s] = "live" /\ phase[s] = "popping"
        /\ nPush[s] = 2 /\ nPop[s] = 2
        /\ isTermFormattable(World, s) /\ isHTMLFormattable(World, s)
        /\ Len(out[s]) > 2

\* C3: a move hands the flags and the stack of the source to the destination
\* and leaves the source without flag and without stack.
C3_MoveTransfersState ==
    [][\A src, dst \in StrStreams :
          Move(src, dst) =>
              /\ iw'[dst] = iw[src]
              /\ isTermFormattable(World, dst)' = isTermFormattable(World, src)
              /\ StackOf(dst)' = StackOf(src)
              /\ ~isTermFormattable(World, src)'
              /\ StackOf(src)' = "none"]_vars

C3_Witness ==
    /\ origin["b"] = "move" /\ st["a"] = "live" /\ st["b"] = "live"
    /\ isTermFormattable(World, "b") /\ ~isTermFormattable(World, "a")
    /\ Len(ModsOf("b")) = 1 /\ nPop["b"] = 0 /\ pw["a"] = NULL

\* C4: every allocated modifier stack is released exactly once: none is
\* deleted twice, and none is left once every stream is destroyed.
C4_ReleasedExactlyOnce ==
    /\ \A a \in Addrs : heap[a].dels <= 1
    /\ (\A s \in StrStreams : st[s] = "dead") =>
           \A a \in Addrs : heap[a].st # "live"

\* C5: popModifier on a stream without a stack fails the assertion, writes
\* nothing and neither creates nor changes a stack.
C5_PopWithoutStackAsserts ==
    [][\A s \in StrStreams :
          (Pop(s) /\ pw[s] = NULL) =>
              /\ err' = "assert"
              /\ out' = out
              /\ heap' = heap
              /\ pw' = pw]_vars

C5_Witness ==
    /\ err = "assert"
    /\ \E s \in StrStreams : nPop[s] = 1 /\ nPush[s] = 0 /\ pw[s] = NULL

-----------------------------------------------------------------------------
(* Claims on the scoped guard and on format(mod, stream, fn) *)

Texts(o) == {i \in 1..Len(o) : o[i] = "text"}

Rank(o, i) == Cardinality({j \in Texts(o) : j <= i})

ArmedOn(s) == {g \in Guards : Armed(guards, g) /\ guards[g].ostream = s}

\* C6: while the guards end in reverse order of their construction on a
\* term-formattable stream, every text is rendered with exactly the codes of
\* the guards alive when it was written, the codes in effect are those of the
\* guards still alive, and one Underline guard around the first of two texts
\* gives ESC[4m text ESC[00m text.
C6_GuardBracketsScope ==
    \A s \in StrStreams :
        (st[s] = "live" /\ lifo /\ ~rawOps[s]) =>
            /\ \A i \in Texts(out[s]) :
                   VisibleAnsi(SubSeq(out[s], 1, i)) = shown[s][Rank(out[s], i)]
            /\ VisibleAnsi(out[s]) = ArmedCodes(guards, order, s)
            /\ (/\ nPush[s] = 1 /\ nPop[s] = 1
                /\ shown[s] = <<Underline.ansi, <<>> >>) =>
                   out[s] = <<"ESC[4m", "text", "ESC[00m", "text">>

C6_Witness ==
    /\ st["a"] = "live" /\ lifo /\ ~rawOps["a"] /\ err = "none"
    /\ shown["a"] = <<Red.ansi \o Underline.ansi, Red.ansi>>
    /\ Cardinality(ArmedOn("a")) = 1

C10_FormatBrackets ==
    /\ [](\A i \in 1..Len(frames) :
            /\ frames[i].invoked = 1
            /\ Armed(guards, frames[i].guard)
            /\ frames[i].before
                   = frames[1].before \o [j \in 1..(i - 1) |-> frames[j].mod]
            /\ ModsOf(frames[i].ostream)
                   = frames[1].before \o [j \in 1..Len(frames) |-> frames[j].mod])
    /\ [][FormatReturn =>
            \A s \in Streams :
                s = Last(frames).ostream => ModsOf(s)' = Last(frames).before]_vars

C10_Witness ==
    /\ Len(frames) = 2 /\ Len(frames[1].before) = 1 /\ err = "none"
    /\ frames[1].mod # frames[2].mod
    /\ shown["a"] # <<>> /\ Len(Last(shown["a"])) = 3

-----------------------------------------------------------------------------
(* Claims on the wrappers *)

RenderAll(objects) == [i \in 1..Len(objects) |-> Render(objects[i])]

C12_EachInsertionBracketed ==
    [][\A object \in Objects, s \in StrStreams :
          (HandleInsert(object) /\ handle.ostream = s) =>
              /\ ModsOf(s)' = ModsOf(s)
              /\ nPush'[s] - nPop'[s] = nPush[s] - nPop[s]
              /\ Plain(out[s])' = Append(Plain(out[s]), Render(object))
              /\ (/\ isTermFormattable(World, s)
                  /\ ~isHTMLFormattable(World, s)
                  /\ ModsOf(s) = <<>>) =>
                     out'[s] = out[s] \o handle.mod.ansi \o <<Render(object)>>
                                      \o <<"ESC[00m">>]_vars

C12_Witness ==
    /\ handle.n = 2 /\ handle.mod = Bold
    /\ out["a"] = <<"ESC[1m", "x", "ESC[00m", "ESC[1m", "42", "ESC[00m">>
    /\ Depth(World, "a") = 0 /\ err = "none"

-----------------------------------------------------------------------------
(* Claims on the capability flags, the width and the terminal detection *)

\* The explicit flags and the explicit width stored in the iword of s.
TermBit(s) == iw[s] % 2 = 1
HTMLBit(s) == (iw[s] \div 2) % 2 = 1
StoredWidth(s) == (iw[s] \div 256) % 256

\* C13: right after setTermFormattable(S, true) the stream is term-formattable
\* whether or not it is a terminal; a stream with the explicit flag is
\* term-formattable, and a redirection of a file leaves it so.
C13_ForcedStaysFormattable ==
    /\ [][\A s \in FlagStreams :
            SetTermFormattableCall(s, TRUE) => isTermFormattable(World, s)']_vars
    /\ [](\A s \in FlagStreams :
            /\ TermBit(s) => isTermFormattable(World, s)
            /\ ret = Returned("setTermFormattable", <<s, TRUE>>, <<>>)
                   => isTermFormattable(World, s))
    /\ [][\A s \in FlagStreams, file \in Files, tty \in BOOLEAN :
            (isTermFormattable(World, s) /\ TermBit(s) /\ Redirect(file, tty))
                => isTermFormattable(World, s)']_vars

C13_Witness ==
    /\ ret = Returned("isTermFormattable", <<"cout">>, <<TRUE>>)
    /\ ~isatty["stdout"] /\ ~isTerminal("cout") /\ TermBit("cout")

\* C14: setTermFormattable(S, false) on a stream that is not a terminal leaves
\* it not term-formattable, and setHTMLFormattable(S, false) leaves it not
\* HTML-formattable.
C14_FalseUnsets ==
    \A s \in FlagStreams :
        /\ (ret = Returned("setTermFormattable", <<s, FALSE>>, <<>>) /\ ~isTerminal(s))
               => ~isTermFormattable(World, s)
        /\ ret = Returned("setHTMLFormattable", <<s, FALSE>>, <<>>)
               => ~isHTMLFormattable(World, s)

C16_WidthPriority ==
    [][\A s \in FlagStreams \cup {"cerr"} :
          GetWidthCall(s) =>
              ret'.val = IF StoredWidth(s) # 0 THEN <<StoredWidth(s)>>
                         ELSE IF isTerminal(s) THEN <<wsCol>>
                         ELSE <<>>]_vars

\* C17: setWidth(S, W) with W >= 256 fails the assertion and changes neither
\* the width nor the flags of any stream.
C17_WideWidthAsserts ==
    [][\A s \in FlagStreams, width \in Widths :
          (SetWidth(s, width) /\ width >= 256) =>
              (err' = "assert" /\ UNCHANGED <<st, iw, pw, cb, heap, out>>)]_vars

C17_Witness ==
    /\ err = "assert"
    /\ StoredWidth("a") = 255 /\ TermBit("a") /\ HTMLBit("a")

\* C18: after copyFormatFlags(source, dest), dest has the explicit term flag
\* if source was term-formattable, by its flag or as a terminal, and dest is
\* HTML-formattable if source was.
C18_CopyEffectiveFlags ==
    [][\A source \in FlagStreams \cup {"cerr"}, dest \in FlagStreams :
          CopyFormatFlags(source, dest) =>
              /\ isTermFormattable(World, source) =>
                     (TermBit(dest)' /\ isTermFormattable(World, dest)')
              /\ isHTMLFormattable(World, source) =>
                     (HTMLBit(dest)' /\ isHTMLFormattable(World, dest)')]_vars

C18_Witness ==
    /\ ret = Returned("copyFormatFlags", <<"cerr", "a">>, <<>>)
    /\ isTerminal("cerr") /\ ~TermBit("cerr")
    /\ TermBit("a") /\ ~TermBit("cout")

\* C19: after copyFormatFlags(source, dest) on streams that are not terminals,
\* dest is term-formattable exactly if source is and HTML-formattable exactly
\* if source is.
C19_CopyMakesFlagsEqual ==
    [][\A source \in FlagStreams \cup {"cerr"}, dest \in FlagStreams :
          (CopyFormatFlags(source, dest) /\ ~isTerminal(source) /\ ~isTerminal(dest)) =>
              /\ isTermFormattable(World, dest)' = isTermFormattable(World, source)'
              /\ isHTMLFormattable(World, dest)' = isHTMLFormattable(World, source)']_vars

\* The file behind a standard stream.
FileOf(s) == IF s = "cout" THEN "stdout" ELSE "stderr"

\* C20: isTerminal is false for a stream that is not std::cout, std::cerr or
\* std::clog, is true for one of these only if its file descriptor is a
\* terminal, and the call changes no stream and writes nothing.
C20_IsTerminalStdOnly ==
    /\ [](\A s \in Streams \ StdStreams : ~isTerminal(s))
    /\ [](\A s \in StdStreams :
            /\ isTerminal(s) => isatty[FileOf(s)]
            /\ (isatty[FileOf(s)] /\ (apple => envTermDefined)) => isTerminal(s))
    /\ [][\A s \in Streams :
            IsTerminalCall(s) =>
                /\ UNCHANGED <<streamVars, envVars>>
                /\ ret'.val = <<s \in StdStreams /\ isatty[FileOf(s)]
                                /\ (apple => envTermDefined)>>]_vars

C20_Witness ==
    /\ ret = Returned("isTerminal", <<"a">>, <<FALSE>>)
    /\ isatty["stdout"] /\ isatty["stderr"] /\ ~apple

-----------------------------------------------------------------------------
(* Claims on what a modifier writes *)

Formattable(s) == isTermFormattable(World, s) \/ isHTMLFormattable(World, s)

\* C21: a stream that is neither term-formattable nor HTML-formattable holds
\* only the plain text written to it, whatever modifiers were inserted into
\* it, pushed on it, popped from it or wrapped around the objects inserted:
\* none of these calls wrote an escape code or a tag.
C21_PlainStreamGetsNoCodes ==
    ~Formattable("a") => out["a"] = Plain(out["a"])

C21_Witness ==
    /\ ~Formattable("a") /\ err = "none"
    /\ ret = Returned("operator<<", <<"a", Red>>, <<>>)
    /\ nPush["a"] = 2 /\ nPop["a"] = 2 /\ phase["a"] = "mixed"
    /\ out["a"] = <<"x", "42">>

\* The HTML colour name of a colour modifier of the catalog.
HTMLName(mod) == IF mod = Red THEN "Crimson" ELSE "DarkTurquoise"

\* C24: inserting a colour modifier into an HTML-formattable stream writes
\* <font color="NAME"> with its HTML colour name, inserting Reset writes
\* </font>; on a stream that is term-formattable too the escape codes come
\* first and the HTML fragment second, and on one that is not they are absent.
C24_HTMLFragment ==
    [][\A mod \in ColorMods \cup {Reset} :
          (InsertModifier(mod, "cout") /\ isHTMLFormattable(World, "cout")) =>
              out'["cout"] =
                  out["cout"]
                  \o (IF isTermFormattable(World, "cout") THEN mod.ansi ELSE <<>>)
                  \o (IF mod = Reset THEN <<"</font>">>
                      ELSE <<"<font color=\"", HTMLName(mod), "\">">>)]_vars

C24_Witness ==
    /\ ret = Returned("operator<<", <<"cout", Cyan>>, <<>>)
    /\ out["cout"] = <<"text", "ESC[36m", "<font color=\"", "DarkTurquoise", "\">">>
    /\ ~isatty["stdout"] /\ err = "none"

-----------------------------------------------------------------------------
(* Claims on the overloads without a stream *)

\* What the program can see of stream s: its flags, its stack, its output.
Observed(w, s) ==
    [iw |-> w.iw[s], out |-> w.out[s],
     stack |-> IF w.pw[s] = NULL THEN <<"none">> ELSE <<"stack", w.heap[w.pw[s]].mods>>]

\* C22: pushModifier(mod) and popModifier() do to std::cout, and to the error
\* state, what pushModifier(mod, std::cout) and popModifier(std::cout) do, and
\* leave the flags, the stack and the output of every other stream alone.
C22_DefaultIsCout ==
    /\ [][\A mod \in WrapMods :
            PushDefault(mod) =>
                /\ Observed(World, "cout")' = Observed(pushModifier(World, mod, "cout"), "cout")
                /\ err' = pushModifier(World, mod, "cout").err
                /\ \A s \in Streams \ {"cout"} :
                       Observed(World, s)' = Observed(World, s)]_vars
    /\ [][PopDefault =>
            /\ Observed(World, "cout")' = Observed(popModifier(World, "cout"), "cout")
            /\ err' = popModifier(World, "cout").err
            /\ \A s \in Streams \ {"cout"} :
                   Observed(World, s)' = Observed(World, s)]_vars

C22_Witness ==
    /\ err = "none"
    /\ ModsOf("cout") = <<Bold>> /\ ModsOf("cerr") = <<Red>>
    /\ nPush["cout"] = 2 /\ nPop["cout"] = 1 /\ ~isTermFormattable(World, "cerr")
    /\ isTermFormattable(World, "cout") /\ Len(out["cout"]) > 2

-----------------------------------------------------------------------------
(* Claims on the modifier algebra *)

\* The two encodings of a modifier.
Enc(mod) == [ansi |-> mod.ansi, html |-> mod.html]

\* C23 as stated: A | B has A's ANSI bytes then B's and A's HTML fragments
\* then B's, (A | B) | C equals A | (B | C) in both encodings, and A | B
\* differs from B | A whenever A and B differ.
C23_CombineOrderSensitive ==
    /\ [](ret.fn \in OrFns =>
            Enc(ret.val[1]) = [ansi |-> ret.args[1].ansi \o ret.args[2].ansi,
                               html |-> ret.args[1].html \o ret.args[2].html])
    /\ [][(ret.fn \in OrFns /\ ret'.fn = "operator|(&&)" /\ ret'.args[1] = ret.val[1]) =>
            Enc(ret'.val[1])
                = Enc(operatorOr(ret.args[1], operatorOr(ret.args[2], ret'.args[2])))]_vars
    /\ [][(ret.fn \in OrFns /\ ret'.fn = "operator|" /\ ret'.args[2] = ret.val[1]) =>
            Enc(ret'.val[1])
                = Enc(operatorOrMove(operatorOr(ret'.args[1], ret.args[1]), ret.args[2]))]_vars
    /\ [](ret.fn \in OrFns /\ ret.args[1] # ret.args[2] =>
            Enc(ret.val[1]) # Enc(operatorOr(ret.args[2], ret.args[1])))

\* C23, amended: the concatenation and the associativity as stated; A | B
\* differs from B | A for two different named modifiers of the catalog other
\* than None.
C23_CombineConcatenates ==
    /\ [](ret.fn \in OrFns =>
            Enc(ret.val[1]) = [ansi |-> ret.args[1].ansi \o ret.args[2].ansi,
                               html |-> ret.args[1].html \o ret.args[2].html])
    /\ [][(ret.fn \in OrFns /\ ret'.fn = "operator|(&&)" /\ ret'.args[1] = ret.val[1]) =>
            Enc(ret'.val[1])
                = Enc(operatorOr(ret.args[1], operatorOr(ret.args[2], ret'.args[2])))]_vars
    /\ [][(ret.fn \in OrFns /\ ret'.fn = "operator|" /\ ret'.args[2] = ret.val[1]) =>
            Enc(ret'.val[1])
                = Enc(operatorOrMove(operatorOr(ret'.args[1], ret.args[1]), ret.args[2]))]_vars
    /\ [](/\ ret.fn \in OrFns
          /\ ret.args[1] \in CombineMods \ {None}
          /\ ret.args[2] \in CombineMods \ {None}
          /\ ret.args[1] # ret.args[2]
          => Enc(ret.val[1]) # Enc(operatorOr(ret.args[2], ret.args[1])))

C23_Witness ==
    /\ ret.fn = "operator|(&&)"
    /\ ret.args = <<operatorOr(Bold, Red), Cyan>>
    /\ ret.val[1].ansi = <<"ESC[1m", "ESC[31m", "ESC[36m">>
    /\ ret.val[1].html = <<"", "Crimson", "DarkTurquoise">>

-----------------------------------------------------------------------------
(* Claims on the state of a new stream *)

\* Nothing was stored in the iword or the pword of s.
Untouched(s) == iw[s] = 0 /\ pw[s] = NULL /\ cb[s] = 0

\* A call that sets a flag or the width of s, or pushes on it.
Touches(s) ==
    \/ \E value \in BOOLEAN : SetTermFormattableCall(s, value)
    \/ \E value \in BOOLEAN : SetHTMLFormattableCall(s, value)
    \/ \E width \in Widths : SetWidth(s, width)
    \/ \E mod \in Mods : Push(s, mod)

\* C25: a default-constructed string stream stays untouched until a flag or
\* the width is set or a modifier pushed; while it is, it is not
\* term-formattable and not HTML-formattable, its width is unknown, it has no
\* modifier stack, and the queries return just that and store nothing. A
\* standard stream without the HTML flag is not HTML-formattable, on a
\* terminal or not.
C25_FreshDefaults ==
    /\ [][Construct("a") => Untouched("a")']_vars
    /\ [][(st["a"] = "live" /\ Untouched("a") /\ ~Touches("a")) => Untouched("a")']_vars
    /\ []((st["a"] = "live" /\ Untouched("a")) =>
            /\ ~isTermFormattable(World, "a")
            /\ ~isHTMLFormattable(World, "a")
            /\ getWidth(World, "a") = {<<>>}
            /\ StackOf("a") = "none")
    /\ [](~HTMLBit("cout") => ~isHTMLFormattable(World, "cout"))
    /\ [][(Untouched("a") /\ (\/ IsTermFormattableCall("a")
                              \/ IsHTMLFormattableCall("a"))) =>
            (ret'.val = <<FALSE>> /\ UNCHANGED streamVars)]_vars
    /\ [][(Untouched("a") /\ GetWidthCall("a")) =>
            (ret'.val = <<>> /\ UNCHANGED streamVars)]_vars
    /\ [][(Untouched("cout") /\ IsHTMLFormattableCall("cout")) =>
            (ret'.val = <<FALSE>> /\ UNCHANGED streamVars)]_vars

C25_Witness ==
    /\ st["a"] = "live" /\ Untouched("a") /\ origin["a"] = "ctor"
    /\ ret = Returned("getWidth", <<"a">>, <<>>)
    /\ isTerminal("cout") /\ Untouched("cout")

-----------------------------------------------------------------------------
(* Claims on scenarios of the push/pop protocol *)

\* Stream b was made by moving a, which held Red alone on a term-formattable
\* stream, and nothing was pushed or popped since.
MovedRed ==
    /\ origin["b"] = "move" /\ st["b"] = "live" /\ err = "none"
    /\ nPush["b"] = 1 /\ nPop["b"] = 0 /\ ModsOf("b") = <<Red>>
    /\ isTermFormattable(World, "b") /\ ~rawOps["b"]

\* C26: after pushModifier(Red, a) and the move of a into b, what is written
\* to b is red; popModifier(b) then writes the reset and leaves b with an
\* empty stack and no code in effect; popModifier(a) on the moved-from a
\* fails the assertion and writes nothing.
C26_MoveScenario ==
    /\ [](MovedRed => VisibleAnsi(out["b"]) = Red.ansi)
    /\ [][(MovedRed /\ Write("b")) =>
            VisibleAnsi(SubSeq(out'["b"], 1, Len(out'["b"]) - 1)) = <<"ESC[31m">>]_vars
    /\ [][(MovedRed /\ Pop("b")) =>
            /\ out'["b"] = Append(out["b"], "ESC[00m")
            /\ StackOf("b")' = <<>>
            /\ RenderState(out["b"])' = RenderState(<<>>)
            /\ err' = "none"]_vars
    /\ [][(origin["b"] = "move" /\ nPush["a"] = 0 /\ Pop("a")) =>
            (err' = "assert" /\ out' = out /\ heap' = heap)]_vars

C26_Witness ==
    /\ origin["b"] = "move" /\ err = "assert"
    /\ nPop["a"] = 1 /\ nPush["b"] = 1 /\ nPop["b"] = 1
    /\ StackOf("b") = <<>>
    /\ out["b"] = <<"ESC[31m", "text", "ESC[00m", "text">>

\* The escape codes among the tokens a step appended to the output of s.
Emitted(s) == SelectSeq(SubSeq(out'[s], Len(out[s]) + 1, Len(out'[s])), IsAnsi)

Resets(n) == [i \in 1..n |-> "ESC[00m"]

\* C27 as stated: every push on a term-formattable stream writes a reset, also
\* the first push onto an empty or new stack, and then every entry of the
\* stack including the new one, bottom to top.
C27_PushResetsAlways ==
    [][\A s \in StrStreams, mod \in Mods :
          (Push(s, mod) /\ isTermFormattable(World, s)) =>
              \E n \in 1..(MaxDepth + 1) :
                  Emitted(s) = Resets(n) \o NetEffect(Append(ModsOf(s), mod))]_vars

\* C27, amended: a push on a term-formattable stream writes one reset for
\* each entry the stack held before, none on the first push onto an empty or
\* new stack, and then every entry of the stack including the new one, bottom
\* to top.
C27_PushResetsThenReplays ==
    [][\A s \in StrStreams, mod \in Mods :
          (Push(s, mod) /\ isTermFormattable(World, s)) =>
              /\ Emitted(s) = Resets(Depth(World, s))
                                 \o NetEffect(Append(ModsOf(s), mod))
              /\ ModsOf(s)' = Append(ModsOf(s), mod)
              /\ ModsOf(s) = <<>> => out'[s] = out[s] \o mod.ansi]_vars

C27_Witness ==
    /\ err = "none" /\ isTermFormattable(World, "a")
    /\ nPush["a"] = 2 /\ nPop["a"] = 0
    /\ out["a"] = <<"ESC[31m", "text", "ESC[00m", "ESC[31m", "ESC[4m">>

\* C28: popModifier on a non-empty stack removes the last entry, which is the
\* most recently pushed one still on the stack, keeps the others in their
\* order, and on a term-formattable stream writes the reset followed by the
\* remaining entries bottom to top.
C28_PopIsLIFO ==
    /\ [][\A s \in StrStreams, mod \in Mods :
            Push(s, mod) => ModsOf(s)' = Append(ModsOf(s), mod)]_vars
    /\ [][\A s \in StrStreams :
            (Pop(s) /\ ModsOf(s) # <<>>) =>
                /\ err' = "none"
                /\ Append(ModsOf(s)', Last(ModsOf(s))) = ModsOf(s)
                /\ isTermFormattable(World, s) =>
                       /\ Emitted(s) = Resets(Depth(World, s)) \o NetEffect(ModsOf(s)')
                       /\ Head(Emitted(s)) = "ESC[00m"]_vars

C28_Witness ==
    /\ err = "none" /\ isTermFormattable(World, "a")
    /\ nPush["a"] = 2 /\ nPop["a"] = 1 /\ ModsOf("a") = <<Red>>
    /\ out["a"] = <<"ESC[31m", "ESC[00m", "ESC[31m", "ESC[4m",
                     "ESC[00m", "ESC[00m", "ESC[31m">>

\* C29: popModifier on a stream whose stack exists and is empty fails the
\* assertion and removes nothing.
C29_PopOnEmptyStackAsserts ==
    [][\A s \in StrStreams :
          (Pop(s) /\ pw[s] # NULL /\ ModsOf(s) = <<>>) =>
              (err' = "assert" /\ heap' = heap)]_vars

-----------------------------------------------------------------------------
(* Claims on the failure of the width query *)

\* The ioctl on STDOUT_FILENO fails: standard output is not a terminal.
QueryFails == ~isatty["stdout"]

\* C30: getWidth on a terminal stream without an explicit width returns no
\* value when the width query of the operating system fails.
C30_FailedQueryIsUnknown ==
    [][\A s \in FlagStreams \cup {"cerr"} :
          (GetWidthCall(s) /\ isTerminal(s) /\ StoredWidth(s) = 0 /\ QueryFails) =>
              ret'.val = <<>>]_vars

-----------------------------------------------------------------------------
(* Claims on modifiers without an HTML colour *)

\* C31: on a stream that is HTML-formattable and not term-formattable,
\* inserting Bold, a modifier without an HTML colour, writes nothing.
C31_NonColorIsSilent ==
    [][(/\ InsertModifier(Bold, "cout")
        /\ isHTMLFormattable(World, "cout")
        /\ ~isTermFormattable(World, "cout")) =>
            out' = out]_vars

-----------------------------------------------------------------------------
(* Claims on guards that end in any order *)

\* C32: when an armed guard is destroyed, in whatever order the guards on
\* the stream end, the entry that leaves the stack is the modifier the guard
\* pushed at construction.
C32_GuardPopsItsOwn ==
    [][\A g \in Guards, s \in StrStreams :
          (GuardDtor(g) /\ Armed(guards, g) /\ guards[g].ostream = s) =>
              ModsOf(s) = Append(ModsOf(s)', guards[g].mod)]_vars

-----------------------------------------------------------------------------
(* Claims on the HTML tags *)

\* C33: on a stream made HTML-formattable before its first push, after every
\* push and pop the <font> tags written and not closed are as many as the
\* stack is deep, one for each entry, a combined modifier included, and none
\* is open when the pops have matched the pushes.
C33_FontTagsBalanceDepth ==
    (st["a"] = "live" /\ err = "none" /\ isHTMLFormattable(World, "a")) =>
        /\ OpenFonts(out["a"]) = Depth(World, "a")
        /\ Depth(World, "a") = nPush["a"] - nPop["a"]
        /\ nPush["a"] = nPop["a"] => OpenFonts(out["a"]) = 0

C33_Witness ==
    /\ st["a"] = "live" /\ err = "none" /\ isHTMLFormattable(World, "a")
    /\ ~isTermFormattable(World, "a")
    /\ nPush["a"] = 2 /\ nPop["a"] = 1
    /\ ModsOf("a") = <<operatorOr(Red, Cyan)>>
    /\ OpenFonts(out["a"]) = 1

-----------------------------------------------------------------------------
(* Claims on what each operation leaves alone *)

\* C34: flags, width and stack are stored apart.  setWidth leaves both flags
\* as they were; each flag setter leaves the other flag and the width as they
\* were; no setter and no copyFormatFlags changes a stack, and
\* copyFormatFlags leaves the width of dest as it was; pushModifier and
\* popModifier leave the flags and the width as they were.
C34_StoredApart ==
    [][/\ \A s \in StrStreams, width \in StoreWidths :
             SetWidth(s, width) =>
                 /\ TermBit(s)' = TermBit(s) /\ HTMLBit(s)' = HTMLBit(s)
                 /\ pw' = pw /\ heap' = heap
                 /\ \A o \in StrStreams \ {s} : iw'[o] = iw[o]
       /\ \A s \in StrStreams, value \in BOOLEAN :
             SetTermFormattable(s, value) =>
                 /\ HTMLBit(s)' = HTMLBit(s) /\ StoredWidth(s)' = StoredWidth(s)
                 /\ pw' = pw /\ heap' = heap
                 /\ \A o \in StrStreams \ {s} : iw'[o] = iw[o]
       /\ \A s \in StrStreams, value \in BOOLEAN :
             SetHTMLFormattable(s, value) =>
                 /\ TermBit(s)' = TermBit(s) /\ StoredWidth(s)' = StoredWidth(s)
                 /\ pw' = pw /\ heap' = heap
                 /\ \A o \in StrStreams \ {s} : iw'[o] = iw[o]
       /\ \A source \in StrStreams : \A dest \in StrStreams \ {source} :
             CopyFormatFlags(source, dest) =>
                 /\ StoredWidth(dest)' = StoredWidth(dest)
                 /\ iw'[source] = iw[source]
                 /\ pw' = pw /\ heap' = heap
       /\ (Push("a", Red) \/ Pop("a")) => iw' = iw]_vars

C34_Witness ==
    /\ err = "none"
    /\ TermBit("a") /\ HTMLBit("a") /\ StoredWidth("a") = 255
    /\ ModsOf("a") = <<Red>> /\ nPop["a"] = 1
    /\ TermBit("b") /\ ~HTMLBit("b") /\ StoredWidth("b") = 255
    /\ ret.fn = "copyFormatFlags"

-----------------------------------------------------------------------------
(* Claims on threads with streams of their own *)

\* The world a thread that runs alone sees: its own stream as it is, every
\* other stream untouched and no stack but its own allocated.
Alone(w, s) ==
    [w EXCEPT !.iw = [o \in Streams |-> IF o = s THEN w.iw[o] ELSE 0],
              !.pw = [o \in Streams |-> IF o = s THEN w.pw[o] ELSE NULL],
              !.cb = [o \in Streams |-> IF o = s THEN w.cb[o] ELSE 0],
              !.out = [o \in Streams |-> IF o = s THEN w.out[o] ELSE <<>>],
              !.heap = [a \in Addrs |-> IF a = w.pw[s] THEN w.heap[a] ELSE NoStack]]

\* C35: whatever the other thread has done, each step of a thread does to the
\* flags, stack and output of its own stream what it does when the thread
\* runs alone, and leaves those of the other stream as they were; so each
\* stream ends as in a run of its thread alone.
C35_ThreadsDoNotInterfere ==
    [][\A s \in StrStreams :
         /\ SetTermFormattable(s, TRUE) =>
               Observed(World, s)' = Observed(setTermFormattable(Alone(World, s), s, TRUE), s)
         /\ Push(s, Red) =>
               /\ Observed(World, s)' = Observed(pushModifier(Alone(World, s), Red, s), s)
               /\ err' = pushModifier(Alone(World, s), Red, s).err
         /\ Pop(s) =>
               /\ Observed(World, s)' = Observed(popModifier(Alone(World, s), s), s)
               /\ err' = popModifier(Alone(World, s), s).err
         /\ Write(s) => out'[s] = Append(out[s], "text")
         /\ (SetTermFormattable(s, TRUE) \/ Push(s, Red) \/ Pop(s) \/ Write(s)) =>
               \A o \in StrStreams \ {s} : Observed(World, o)' = Observed(World, o)]_vars

C35_Witness ==
    /\ err = "none"
    /\ TermBit("a") /\ ~TermBit("b")
    /\ ModsOf("a") = <<Red>> /\ ModsOf("b") = <<Red>>
    /\ nPop["a"] = 1 /\ nPop["b"] = 0
    /\ out["a"] # <<>> /\ out["b"] = <<"text">>

-----------------------------------------------------------------------------
(* Claims on the stack of a stream that is not formattable *)

\* C36: the stack does not depend on the flags.  A stream has a stack from its
\* first push until it is destroyed or moved from, and the stack is as deep
\* as the pushes on the stream outnumber the pops; a push appends its entry
\* and a pop removes the last one whether the stream is formattable or not;
\* and a push or pop on a term-formattable stream writes the codes of every
\* entry left on the stack, those pushed before the flag was set included.
C36_StackIgnoresFlags ==
    /\ [](\A s \in StrStreams :
            /\ Live(s) =>
                  /\ Depth(World, s) = nPush[s] - nPop[s]
                  /\ (pw[s] # NULL) = (nPush[s] > 0)
                  /\ pw[s] # NULL => heap[pw[s]].st = "live"
            /\ (st[s] # "live" /\ err = "none") => pw[s] = NULL)
    /\ [][\A s \in StrStreams :
            /\ \A mod \in Mods :
                  Push(s, mod) =>
                      /\ ModsOf(s)' = Append(ModsOf(s), mod)
                      /\ isTermFormattable(World, s) =>
                            Emitted(s) = Resets(Depth(World, s)) \o NetEffect(ModsOf(s)')
                      /\ ~isTermFormattable(World, s) => out'[s] = out[s]
            /\ (Pop(s) /\ ModsOf(s) # <<>>) =>
                      /\ ModsOf(s) = Append(ModsOf(s)', Last(ModsOf(s)))
                      /\ isTermFormattable(World, s) =>
                            Emitted(s) = Resets(Depth(World, s)) \o NetEffect(ModsOf(s)')
                      /\ ~isTermFormattable(World, s) => out'[s] = out[s]]_vars

C36_Witness ==
    /\ err = "none" /\ st["b"] = "live"
    /\ rawOps["b"] /\ TermBit("b")
    /\ nPush["b"] = 2 /\ nPop["b"] = 1
    /\ ModsOf("b") = <<Red>>
    /\ out["b"] = <<"ESC[00m", "ESC[00m", "ESC[31m">>

-----------------------------------------------------------------------------
(* Claims on the overloads of the combine operator *)

\* C37: std::move(a) | b yields the modifier a | b yields, equal in ANSI
\* bytes, HTML fragments and is-reset flag, also for an a that carries the
\* is-reset flag, and a |= b leaves a equal to a | b.
C37_OverloadsAgree ==
    [][\A lhs, rhs \in CombineMods :
          (OrMove(lhs, rhs) \/ OrAssign(lhs, rhs)) =>
              ret'.val = <<operatorOr(lhs, rhs)>>]_vars

====
